---- MODULE Spec2Model ----
(***************************************************************************)
(* The AudioStreamer component (AudioStreamer.tsx): the WebSocket it       *)
(* holds, the playback queue and its drain loop, the capture pipeline and  *)
(* the PCM16 conversions used on both sides.                               *)
(*                                                                         *)
(* JavaScript runs each handler to completion, so one action is one task:  *)
(* a handler together with the continuations it resumes, up to the next    *)
(* await.  Asynchronous completions (blob reads, getUserMedia, onended,    *)
(* socket events) are separate actions that can come in any order.         *)
(***************************************************************************)
EXTENDS Integers, Sequences, FiniteSets, TLC

\* ------------------------------------------------------------------ bounds
MaxMsgs    == 3   \* binary messages delivered to ws.onmessage
MaxRestartMsgs == 4 \* the same, in the specification of the halted drain
MaxCaptureMsgs == 1 \* the same, in the specification of the capture side
MaxSockets == 2   \* WebSocket objects created by connectWebSocket
MaxStarts  == 2   \* startRecording invocations
MaxSent    == 2   \* capture frames sent on the transport
MaxDiscarded == 1 \* capture blocks delivered while the socket is not open
MaxSamples == 2   \* samples per buffer in the codec specification

\* ------------------------------------------------------- program constants
PlaybackRate   == 24000
CaptureRate    == 16000
HalfScale      == 32768
Int16Min       == -32768
Int16Max       == 32767
Uint16Modulus  == 65536
ByteMax        == 255
BlockSize      == 4096
\* sample rate of "new AudioContext()" with no options: the output device's
\* preferred rate, which the code does not choose (48 kHz on common hardware)
HardwareRates  == {48000}

\* payloads the server sends: one byte, one sample, one sample and a
\* trailing byte
Payloads == { <<7>>, <<0, 128>>, <<255, 127, 9>> }
\* the two of them that decide whether the drain throws
RestartPayloads == { <<7>>, <<0, 128>> }

VARIABLES
  \* --- connection
  sockets,          \* readyState of every WebSocket created so far
  wsRef,            \* wsRef.current: 0 for null, else an index of sockets
  isConnected,
  status,
  connects,         \* invocations of connectWebSocket so far
  \* --- playback
  arrived,          \* number of binary messages handed to ws.onmessage
  reading,          \* blob reads (event.data.arrayBuffer()) not yet completed
  audioQueueRef,    \* audioQueueRef.current
  isPlayingRef,     \* isPlayingRef.current
  audioContextRef,  \* sample rate of audioContextRef.current, 0 for null
  playing,          \* buffer sources started and not yet ended
  drains,           \* playAudioQueue calls past line 73 that have not returned
  pushLog,          \* ids in the order they were pushed on the queue
  renderLog,        \* frames in the order their render was started
  dropped,          \* ids popped by a drain that threw
  \* --- capture
  pendingStarts,    \* startRecording calls awaiting getUserMedia
  startCalls,       \* startRecording invocations so far
  streams,          \* per acquired MediaStream: are its tracks live
  streamRef,        \* streamRef.current: 0 for null
  processors,       \* per ScriptProcessorNode: is it still connected
  mediaRecorderRef, \* mediaRecorderRef.current: 0 for null
  isRecording,
  stopReturned,     \* stopRecording has returned, no startRecording since
  sent,             \* number of capture frames sent
  sentRates,        \* sample rates of the contexts that produced sent frames
  sentBytes,        \* byte lengths of the messages sent
  discarded,        \* capture blocks that were not sent
  caughtError,      \* what the catch of startRecording last caught
  analyserRef,      \* analyserRef.current is not null
  audioLevel,
  monitorScheduled, \* updateLevel is waiting for an animation frame
  \* --- codec specification
  cpc, cbuf, cfloat, cout

connVars  == <<sockets, wsRef, isConnected, status, connects>>
playVars  == <<arrived, reading, audioQueueRef, isPlayingRef, playing,
               drains, pushLog, renderLog, dropped>>
capVars   == <<pendingStarts, startCalls, streams, streamRef, processors,
               mediaRecorderRef, isRecording, stopReturned, sent, sentRates,
               sentBytes, discarded, caughtError, analyserRef, audioLevel,
               monitorScheduled>>
codecVars == <<cpc, cbuf, cfloat, cout>>
vars == <<connVars, playVars, audioContextRef, capVars, codecVars>>

Range(s) == { s[i] : i \in 1..Len(s) }
Ids(s)   == { s[i].id : i \in 1..Len(s) }

\* ------------------------------------------------------------------ codec
\* Float values are kept exact as num/den: a 16-bit numerator over 2^15 fits
\* the 24-bit significand of a Float32Array element, so nothing is rounded.

\* integer part of a/b, b > 0, rounding toward zero (ToInt16's truncation)
TruncDiv(a, b) == IF a >= 0 THEN a \div b ELSE -((-a) \div b)

\* the decoder without the sign correction
DecodeSampleUnsigned(lo, hi) ==
  [num |-> lo + hi * 256, den |-> HalfScale]

\* the sign test off by one: 32768 taken for a positive sample
DecodeSampleOffByOne(lo, hi) ==
  LET sample == lo + hi * 256
  IN  IF sample <= HalfScale
        THEN [num |-> sample, den |-> HalfScale]
        ELSE [num |-> sample - Uint16Modulus, den |-> HalfScale]

\* lines 90-91: sample = lo | hi << 8; sample < 32768 ? sample / 32768
\*                                               : (sample - 65536) / 32768
DecodeSample(lo, hi) ==
  LET sample == lo + hi * 256
  IN  IF sample < HalfScale
        THEN [num |-> sample, den |-> HalfScale]
        ELSE [num |-> sample - Uint16Modulus, den |-> HalfScale]

\* line 85: createBuffer(1, audioData.length / 2, ...): the length argument is
\* an unsigned long, so the quotient is truncated
BufferLength(n) == n \div 2

\* line 85: createBuffer throws NotSupportedError for a length of zero frames
CreateBufferThrows(n) == BufferLength(n) = 0

\* lines 89-92: channelData[i] for i < channelData.length
DecodeFrame(data) ==
  [i \in 1..BufferLength(Len(data)) |-> DecodeSample(data[2*i - 1], data[2*i])]

\* line 149: Math.max(-32768, Math.min(32767, x * 32768)) stored in an
\* Int16Array element: truncated, then taken modulo 2^16
EncodeSample(x) ==
  LET n       == x.num * HalfScale
      clamped == IF n > Int16Max * x.den THEN [num |-> Int16Max, den |-> 1]
                 ELSE IF n < Int16Min * x.den THEN [num |-> Int16Min, den |-> 1]
                 ELSE [num |-> n, den |-> x.den]
      int     == TruncDiv(clamped.num, clamped.den)
  IN  int % Uint16Modulus

\* line 154: pcmData.buffer, the little-endian bytes of the Int16Array
EncodeFrame(xs) ==
  [k \in 1..(2 * Len(xs)) |->
     LET u == EncodeSample(xs[(k + 1) \div 2])
     IN  IF k % 2 = 1 THEN u % 256 ELSE u \div 256]

\* ------------------------------------------------------------ connection
InitComponent ==
  /\ sockets = <<>> /\ wsRef = 0 /\ isConnected = FALSE /\ status = "Ready"
  /\ connects = 0
  /\ arrived = 0 /\ reading = {} /\ audioQueueRef = <<>>
  /\ isPlayingRef = FALSE /\ audioContextRef = 0 /\ playing = {}
  /\ drains = 0
  /\ pushLog = <<>> /\ renderLog = <<>> /\ dropped = <<>>
  /\ pendingStarts = 0 /\ startCalls = 0 /\ streams = <<>> /\ streamRef = 0
  /\ processors = <<>> /\ mediaRecorderRef = 0 /\ isRecording = FALSE
  /\ stopReturned = FALSE /\ sent = 0 /\ sentRates = {}
  /\ sentBytes = {} /\ discarded = 0 /\ caughtError = "none"
  /\ analyserRef = FALSE /\ audioLevel = 0 /\ monitorScheduled = FALSE

Init ==
  /\ InitComponent
  /\ cpc = "idle" /\ cbuf = <<>> /\ cfloat = <<>> /\ cout = <<>>

\* lines 28-67, button at 269-275: shown while !isConnected
connectWebSocket ==
  /\ ~isConnected
  /\ Len(sockets) < MaxSockets
  /\ sockets' = Append(sockets, "CONNECTING")
  /\ wsRef' = Len(sockets) + 1
  /\ connects' = connects + 1
  /\ UNCHANGED <<isConnected, status, playVars, audioContextRef, capVars,
                 codecVars>>

\* lines 32-36
OnOpen(s) ==
  /\ sockets[s] = "CONNECTING"
  /\ sockets' = [sockets EXCEPT ![s] = "OPEN"]
  /\ isConnected' = TRUE
  /\ status' = "Connected to server"
  /\ UNCHANGED <<wsRef, connects, playVars, audioContextRef, capVars,
                 codecVars>>

\* an onclose handler that opens a new connection
ReconnectAfterClose(socks, s) ==
  Append([socks EXCEPT ![s] = "CLOSED"], "CONNECTING")

\* lines 51-60: the sockets once socket s has closed and its handlers, which
\* create none, have run
SocketsAfterClose(socks, s) == [socks EXCEPT ![s] = "CLOSED"]

\* lines 57-60: onerror
OnErrorStatus(st) == "Connection error"

\* lines 51-55: onclose
OnCloseStatus(st) == "Disconnected from server"

\* the status left by the handlers of a closing socket: onerror writes it
\* first when the connection failed, onclose writes last
StatusAfterClose(failed) ==
  OnCloseStatus(IF failed THEN OnErrorStatus(status) ELSE status)

\* lines 51-60: the connection ends; when it failed, onerror runs first and
\* onclose right after it in the same task
OnClose(s, failed) ==
  /\ sockets[s] \in {"CONNECTING", "OPEN", "CLOSING"}
  /\ sockets' = SocketsAfterClose(sockets, s)
  /\ isConnected' = FALSE
  /\ status' = StatusAfterClose(failed)
  /\ UNCHANGED <<wsRef, connects, playVars, audioContextRef, capVars,
                 codecVars>>

\* lines 294-302: Disconnect button, shown while isConnected
Disconnect ==
  /\ isConnected
  /\ sockets' = IF wsRef # 0 /\ sockets[wsRef] \in {"CONNECTING", "OPEN"}
                  THEN [sockets EXCEPT ![wsRef] = "CLOSING"]
                  ELSE sockets
  /\ isConnected' = FALSE
  /\ UNCHANGED <<wsRef, status, connects, playVars, audioContextRef, capVars,
                 codecVars>>

\* --------------------------------------------------------------- playback
\* the emptiness test off by one
EarlyReturnOffByOne(q, flag) == Len(q) <= 1 \/ flag

\* line 71: if (audioQueueRef.current.length === 0 || isPlayingRef.current) return
EarlyReturn(q, flag) == Len(q) = 0 \/ flag

\* the flag left unset when a drain begins
PlayingNotSet == FALSE

\* line 73: isPlayingRef.current = true, before the try block
PlayingOnEntry == TRUE

\* a pop from the wrong end of the queue
PopLast(q) == [head |-> q[Len(q)], rest |-> SubSeq(q, 1, Len(q) - 1)]

\* line 81: audioQueueRef.current.shift()
Shift(q) == [head |-> Head(q), rest |-> Tail(q)]

\* the promise of lines 98-101 created but not awaited
RenderNotAwaited == FALSE

\* lines 98-101: the loop awaits the end of the render it started
AwaitsRender == TRUE

\* the flag cleared on normal exit only, as without the finally block
FlagKeptOnThrow(threw) == threw

\* lines 103-107: catch logs, finally clears the flag, on a throw as on exit
FinallyFlag(threw) == FALSE

\* the loop condition off by one: the last frame is left on the queue
LoopStopsEarly(q) == Len(q) > 1

\* line 80: while (audioQueueRef.current.length > 0)
LoopContinues(q) == Len(q) > 0

\* lines 85-96: the buffer source built from a popped frame
SourceOf(f) ==
  [id |-> f.id, data |-> f.data, rate |-> PlaybackRate,
   samples |-> DecodeFrame(f.data)]

\* lines 80-107: the drain loop from its condition up to the next suspension.
\* flag is isPlayingRef as the loop finds it; the loop writes it in finally.
\* returned tells whether playAudioQueue ran to its end.
RECURSIVE DrainLoop(_, _)
DrainLoop(q, flag) ==
  IF ~LoopContinues(q)
    THEN [queue |-> q, started |-> <<>>, lost |-> <<>>,
          flag |-> FinallyFlag(FALSE), returned |-> TRUE]
    ELSE LET f == Shift(q).head
             rest == Shift(q).rest
         IN  IF CreateBufferThrows(Len(f.data))
               THEN [queue |-> rest, started |-> <<>>, lost |-> <<f.id>>,
                     flag |-> FinallyFlag(TRUE), returned |-> TRUE]
               ELSE IF AwaitsRender
                 THEN [queue |-> rest, started |-> <<SourceOf(f)>>,
                       lost |-> <<>>, flag |-> flag, returned |-> FALSE]
                 ELSE LET r == DrainLoop(rest, flag)
                      IN  [r EXCEPT !.started = <<SourceOf(f)>> \o @]

\* lines 70-108: one call of playAudioQueue, up to its first suspension
PlayAudioQueue(q, flag) ==
  IF EarlyReturn(q, flag)
    THEN [queue |-> q, started |-> <<>>, lost |-> <<>>, flag |-> flag,
          returned |-> FALSE, entered |-> FALSE]
    ELSE [entered |-> TRUE] @@ DrainLoop(q, PlayingOnEntry)

\* lines 43-47: push, then playAudioQueue() unless the flag is set
Enqueue(q, flag, m) ==
  LET q1 == Append(q, m)
  IN  IF ~flag
        THEN PlayAudioQueue(q1, flag)
        ELSE [queue |-> q1, started |-> <<>>, lost |-> <<>>, flag |-> flag,
              returned |-> FALSE, entered |-> FALSE]

\* lines 76-78: the playback path creates the shared context with no options
PlaybackContext(entered) ==
  IF entered /\ audioContextRef = 0
    THEN audioContextRef' \in HardwareRates
    ELSE audioContextRef' = audioContextRef

\* lines 38-41: a binary message is delivered and its blob read begins
OnMessage(s, data, max) ==
  /\ sockets[s] = "OPEN"
  /\ arrived < max
  /\ arrived' = arrived + 1
  /\ reading' = reading \cup {[id |-> arrived + 1, data |-> data]}
  /\ UNCHANGED <<connVars, audioQueueRef, isPlayingRef, playing, drains,
                 pushLog, renderLog, dropped, audioContextRef, capVars,
                 codecVars>>

\* lines 41-47: a blob read completes and the handler resumes
BlobRead(m) ==
  /\ m \in reading
  /\ LET r == Enqueue(audioQueueRef, isPlayingRef, m)
     IN  /\ audioQueueRef' = r.queue
         /\ isPlayingRef' = r.flag
         /\ playing' = playing \cup Range(r.started)
         /\ drains' = drains + (IF r.entered THEN 1 ELSE 0)
                              - (IF r.returned THEN 1 ELSE 0)
         /\ renderLog' = renderLog \o r.started
         /\ dropped' = dropped \o r.lost
         /\ PlaybackContext(r.entered)
  /\ reading' = reading \ {m}
  /\ pushLog' = Append(pushLog, m.id)
  /\ UNCHANGED <<connVars, arrived, capVars, codecVars>>

\* lines 99, 80-107: source.onended resolves the promise and the loop resumes
RenderEnded(src) ==
  /\ src \in playing
  /\ LET r == DrainLoop(audioQueueRef, isPlayingRef)
     IN  /\ audioQueueRef' = r.queue
         /\ isPlayingRef' = r.flag
         /\ playing' = (playing \ {src}) \cup Range(r.started)
         /\ drains' = drains - (IF r.returned THEN 1 ELSE 0)
         /\ renderLog' = renderLog \o r.started
         /\ dropped' = dropped \o r.lost
  /\ UNCHANGED <<connVars, arrived, reading, pushLog, audioContextRef,
                 capVars, codecVars>>

\* ---------------------------------------------------------------- capture
\* lines 111-120, button at 278-284: shown while isConnected and !isRecording
startRecording ==
  /\ isConnected /\ ~isRecording
  /\ startCalls < MaxStarts
  /\ startCalls' = startCalls + 1
  /\ pendingStarts' = pendingStarts + 1
  /\ stopReturned' = FALSE
  /\ UNCHANGED <<connVars, playVars, audioContextRef, streams, streamRef,
                 processors, mediaRecorderRef, isRecording, sent, sentRates,
                 sentBytes, discarded, caughtError, analyserRef, audioLevel,
                 monitorScheduled, codecVars>>

\* lines 125-127: the capture path creates the context only when none exists
CaptureContext(ctx) == IF ctx = 0 THEN CaptureRate ELSE ctx

\* lines 204, 210: the isRecording that updateLevel reads is the one of the
\* render that made startRecording, and the button that invokes startRecording
\* is rendered only while isRecording is false (lines 278-284)
ClosureIsRecording == FALSE

\* the values setAudioLevel can be given: the mean of the analyser's bytes
LevelValues == 0..ByteMax

\* lines 203-213: one run of updateLevel: does it sample, and does it ask
\* for the next animation frame
UpdateLevel(analyser, recording) ==
  IF ~analyser \/ ~recording
    THEN [sampled |-> FALSE, scheduled |-> FALSE]
    ELSE [sampled |-> TRUE, scheduled |-> recording]

\* lines 113-168: getUserMedia resolves and startRecording runs to its end
GetUserMediaResolved ==
  /\ pendingStarts > 0
  /\ pendingStarts' = pendingStarts - 1
  /\ streams' = Append(streams, TRUE)
  /\ streamRef' = Len(streams) + 1
  /\ audioContextRef' = CaptureContext(audioContextRef)
  /\ analyserRef' = TRUE
  /\ LET u == UpdateLevel(TRUE, ClosureIsRecording)
     IN  /\ audioLevel' \in IF u.sampled THEN LevelValues ELSE {audioLevel}
         /\ monitorScheduled' = u.scheduled
  /\ processors' = Append(processors, TRUE)
  /\ mediaRecorderRef' = Len(processors) + 1
  /\ isRecording' = TRUE
  /\ status' = "Recording and streaming PCM..."
  /\ UNCHANGED <<sockets, wsRef, isConnected, connects, playVars, startCalls,
                 stopReturned, sent, sentRates, sentBytes, discarded,
                 caughtError, codecVars>>

\* lines 169-172: the one catch of startRecording, whatever was thrown
CatchStatus(error) == "Microphone access denied"

\* lines 113, 169-172: getUserMedia rejects
GetUserMediaRejected ==
  /\ pendingStarts > 0
  /\ pendingStarts' = pendingStarts - 1
  /\ caughtError' = "getUserMedia"
  /\ status' = CatchStatus("getUserMedia")
  /\ UNCHANGED <<sockets, wsRef, isConnected, connects, playVars,
                 audioContextRef, startCalls, streams, streamRef, processors,
                 mediaRecorderRef, isRecording, stopReturned, sent, sentRates,
                 sentBytes, discarded, analyserRef, audioLevel,
                 monitorScheduled, codecVars>>

\* lines 113-129, 169-172: getUserMedia resolves, the stream is stored, and
\* createMediaStreamSource throws (the browser refuses the stream for this
\* context); the catch runs with the stream still held
StartRecordingSetupFailed ==
  /\ pendingStarts > 0
  /\ pendingStarts' = pendingStarts - 1
  /\ streams' = Append(streams, TRUE)
  /\ streamRef' = Len(streams) + 1
  /\ audioContextRef' = CaptureContext(audioContextRef)
  /\ caughtError' = "setup"
  /\ status' = CatchStatus("setup")
  /\ UNCHANGED <<sockets, wsRef, isConnected, connects, playVars, startCalls,
                 processors, mediaRecorderRef, isRecording, stopReturned,
                 sent, sentRates, sentBytes, discarded, analyserRef,
                 audioLevel, monitorScheduled, codecVars>>

\* lines 176-195, button at 285-291: shown while isConnected and isRecording
stopRecording ==
  /\ isConnected /\ isRecording
  /\ processors' = IF mediaRecorderRef # 0
                     THEN [processors EXCEPT ![mediaRecorderRef] = FALSE]
                     ELSE processors
  /\ mediaRecorderRef' = 0
  /\ streams' = IF streamRef # 0
                  THEN [streams EXCEPT ![streamRef] = FALSE]
                  ELSE streams
  /\ streamRef' = 0
  /\ isRecording' = FALSE
  /\ audioLevel' = 0
  /\ status' = IF isConnected THEN "Connected" ELSE "Disconnected"
  /\ stopReturned' = TRUE
  /\ UNCHANGED <<sockets, wsRef, isConnected, connects, playVars,
                 audioContextRef, pendingStarts, startCalls, sent, sentRates,
                 sentBytes, discarded, caughtError, analyserRef,
                 monitorScheduled, codecVars>>

\* the test of line 141 without the readyState
SocketHeld == wsRef # 0

\* line 141: wsRef.current?.readyState === WebSocket.OPEN
SocketOpen == wsRef # 0 /\ sockets[wsRef] = "OPEN"

\* lines 146, 154: the byte length of an Int16Array of n elements
MessageBytes(n) == 2 * n

\* lines 140-156: a connected ScriptProcessorNode delivers one block of
\* BlockSize samples (line 138); it is sent at once or not at all
OnAudioProcess(p) ==
  /\ processors[p]
  /\ IF SocketOpen
       THEN /\ sent < MaxSent
            /\ sent' = sent + 1
            /\ sentRates' = sentRates \cup {audioContextRef}
            /\ sentBytes' = sentBytes \cup {MessageBytes(BlockSize)}
            /\ discarded' = discarded
       ELSE /\ discarded < MaxDiscarded
            /\ discarded' = discarded + 1
            /\ UNCHANGED <<sent, sentRates, sentBytes>>
  /\ UNCHANGED <<connVars, playVars, audioContextRef, pendingStarts,
                 startCalls, streams, streamRef, processors, mediaRecorderRef,
                 isRecording, stopReturned, caughtError, analyserRef,
                 audioLevel, monitorScheduled, codecVars>>

\* ------------------------------------------------------------------- spec
SocketIds == 1..Len(sockets)

NextConnection ==
  \/ connectWebSocket
  \/ \E s \in SocketIds : OnOpen(s)
  \/ \E s \in SocketIds, failed \in BOOLEAN : OnClose(s, failed)
  \/ Disconnect

NextPlayback ==
  \/ \E s \in SocketIds, data \in Payloads : OnMessage(s, data, MaxMsgs)
  \/ \E m \in reading : BlobRead(m)
  \/ \E src \in playing : RenderEnded(src)

NextCapture ==
  \/ startRecording
  \/ GetUserMediaResolved
  \/ GetUserMediaRejected
  \/ StartRecordingSetupFailed
  \/ stopRecording
  \/ \E p \in 1..Len(processors) : OnAudioProcess(p)

\* The component as a whole.
Next == NextConnection \/ NextPlayback \/ NextCapture
Spec == Init /\ [][Next]_vars

\* The playback side: sockets are created and opened, and their messages are
\* queued and rendered.  The capture actions change nothing the playback
\* actions read except the sample rate of the shared context, which does not
\* steer the queue or the drain loop; closing a socket only takes away
\* deliveries, so the playback side has no behaviour that is missing here.
PlaybackNext ==
  \/ connectWebSocket
  \/ \E s \in SocketIds : OnOpen(s)
  \/ NextPlayback
PlaybackSpec == Init /\ [][PlaybackNext]_vars

\* The playback side over more messages of fewer kinds: a throw that leaves
\* frames behind takes a render in flight, the frame that throws and one
\* more, and the restart takes a fourth message.
RestartNext ==
  \/ connectWebSocket
  \/ \E s \in SocketIds : OnOpen(s)
  \/ \E s \in SocketIds, data \in RestartPayloads :
       OnMessage(s, data, MaxRestartMsgs)
  \/ \E m \in reading : BlobRead(m)
  \/ \E src \in playing : RenderEnded(src)
RestartSpec == Init /\ [][RestartNext]_vars

\* The capture side, with the playback side reduced to few messages.
CaptureNext ==
  \/ NextConnection
  \/ NextCapture
  \/ \E s \in SocketIds, data \in Payloads : OnMessage(s, data, MaxCaptureMsgs)
  \/ \E m \in reading : BlobRead(m)
  \/ \E src \in playing : RenderEnded(src)
CaptureSpec == Init /\ [][CaptureNext]_vars

\* The connection and the capture side alone: no server message arrives.
RecordNext ==
  \/ NextConnection
  \/ NextCapture
RecordSpec == Init /\ [][RecordNext]_vars

\* --------------------------------------------------- codec specification
\* The two conversions applied to a buffer one after the other: the bytes of
\* a frame decoded as the playback loop decodes them, and the values encoded
\* as the capture callback encodes them.
Bytes     == 0..ByteMax
EdgeBytes == {0, 1, 127, 128, 255}

RECURSIVE SeqsOver(_, _)
SeqsOver(S, n) ==
  IF n = 0 THEN {<<>>}
  ELSE { Append(t, x) : t \in SeqsOver(S, n - 1), x \in S }

\* every one-sample buffer, and every buffer of up to MaxSamples samples
\* over the edge bytes
CodecInputs ==
  { <<lo, hi>> : lo \in Bytes, hi \in Bytes }
    \cup UNION { SeqsOver(EdgeBytes, 2 * n) : n \in 0..MaxSamples }

CodecInit ==
  /\ InitComponent
  /\ cpc = "input" /\ cbuf \in CodecInputs /\ cfloat = <<>> /\ cout = <<>>

CodecDecode ==
  /\ cpc = "input"
  /\ cfloat' = DecodeFrame(cbuf)
  /\ cpc' = "decoded"
  /\ UNCHANGED <<connVars, playVars, audioContextRef, capVars, cbuf, cout>>

CodecEncode ==
  /\ cpc = "decoded"
  /\ cout' = EncodeFrame(cfloat)
  /\ cpc' = "encoded"
  /\ UNCHANGED <<connVars, playVars, audioContextRef, capVars, cbuf, cfloat>>

CodecNext == CodecDecode \/ CodecEncode
CodecSpec == CodecInit /\ [][CodecNext]_vars

\* ----------------------------------------------------------------- claims
PushIndex(id) == CHOOSE k \in 1..Len(pushLog) : pushLog[k] = id
PlayingIds    == { src.id : src \in playing }

\* C1: at most one buffer source is started and not yet ended, whatever the
\* order of messages, blob reads and render ends.
C1_OneRenderAtATime == Cardinality(playing) <= 1

\* a render is in flight while two more frames wait behind it
C1_Witness ==
  /\ Cardinality(playing) = 1
  /\ Len(audioQueueRef) = 2
  /\ Len(renderLog) = 1

\* C2: renders start in the order of the pushes, and a frame whose render
\* started before another's has ended by then.
C2_RenderInPushOrder ==
  \A i, j \in 1..Len(renderLog) :
    i < j => /\ PushIndex(renderLog[i].id) < PushIndex(renderLog[j].id)
             /\ renderLog[i].id \notin PlayingIds

\* three frames rendered, the later two pushed while the first was rendering
C2_Witness ==
  /\ Len(renderLog) = 3
  /\ Len(dropped) = 0
  /\ playing = {}
  /\ pushLog = <<renderLog[1].id, renderLog[2].id, renderLog[3].id>>

\* C3: frames are pushed on the queue in the order their messages arrived
\* (ids are arrival numbers).
C3_PushInArrivalOrder ==
  \A i, j \in 1..Len(pushLog) : i < j => pushLog[i] < pushLog[j]

\* C4: a push made while the draining flag is set only appends: it pops
\* nothing, starts no render and leaves the flag alone; and no more than one
\* drain loop is ever active.
C4_EnqueueWhileDrainingAppends ==
  /\ [][ (isPlayingRef /\ Len(pushLog') > Len(pushLog)) =>
           /\ \E m \in reading : audioQueueRef' = Append(audioQueueRef, m)
           /\ playing' = playing
           /\ drains' = drains
           /\ renderLog' = renderLog
           /\ dropped' = dropped
           /\ isPlayingRef' = isPlayingRef ]_vars
  /\ [](drains <= 1)

\* two frames were appended during a drain that is still rendering
C4_Witness ==
  /\ isPlayingRef
  /\ drains = 1
  /\ Len(audioQueueRef) >= 2
  /\ dropped = <<>>
  /\ Len(pushLog) = Len(renderLog) + Len(audioQueueRef)

\* C5: provided renders end and none throws, a frame on the queue is
\* eventually rendered.
C5_NoFrameStranded ==
  \A id \in 1..MaxMsgs :
    (id \in Ids(audioQueueRef)) ~> (id \in Ids(renderLog) \/ dropped # <<>>)

\* every message was rendered, none thrown away, and the drain has returned
C5_Witness ==
  /\ Len(renderLog) >= 2
  /\ Len(renderLog) = arrived
  /\ dropped = <<>>
  /\ playing = {}
  /\ ~isPlayingRef

\* C6: a step in which the drain throws leaves the flag clear, starts no
\* render, loses the popped frame alone and keeps the rest of the queue in
\* order; a push that finds frames left behind by it starts a drain at the
\* oldest of them, with the new frame behind them.
C6_ThrowHaltsAndRestarts ==
  /\ [][ Len(dropped') > Len(dropped) =>
           /\ ~isPlayingRef'
           /\ playing' \subseteq playing
           /\ renderLog' = renderLog
           /\ \E q0 \in {audioQueueRef}
                          \cup {Append(audioQueueRef, m) : m \in reading} :
                /\ q0 # <<>>
                /\ dropped' = Append(dropped, Head(q0).id)
                /\ audioQueueRef' = Tail(q0) ]_vars
  /\ [][ (~isPlayingRef /\ audioQueueRef # <<>>
            /\ Len(pushLog') > Len(pushLog)) =>
           /\ \E m \in reading :
                audioQueueRef' = Tail(Append(audioQueueRef, m))
           /\ \/ /\ renderLog' = Append(renderLog, SourceOf(Head(audioQueueRef)))
                 /\ isPlayingRef'
              \/ /\ dropped' = Append(dropped, Head(audioQueueRef).id)
                 /\ ~isPlayingRef' ]_vars

\* a frame left behind by a throw has been rendered by a later drain, ahead
\* of the frame whose push started that drain
C6_Witness ==
  /\ Len(dropped) = 1
  /\ Len(pushLog) = 4
  /\ dropped[1] = pushLog[2]
  /\ Len(renderLog) = 3
  /\ renderLog[2].id = pushLog[3]
  /\ renderLog[3].id = pushLog[4]

\* C7: no render is started for a payload of odd length.
C7_OddPayloadNotRendered ==
  \A i \in 1..Len(renderLog) : Len(renderLog[i].data) % 2 = 0

\* C8: once stopRecording has returned, no capture frame is sent until
\* startRecording is invoked again.
C8_NoSendAfterStop == [][ stopReturned => sent' = sent ]_vars

\* C9: every frame sent was captured by a context running at 16 kHz.
C9_CapturedAt16k == sentRates \subseteq {CaptureRate}

\* C10: decoding an even-length buffer and encoding the result gives the
\* buffer back.
C10_RoundTrip == cpc = "encoded" => cout = cbuf

\* a buffer holding the most negative sample has gone through both steps
C10_Witness == cpc = "encoded" /\ cbuf = <<0, 128>> /\ cfloat[1].num < 0

\* the pair read directly as a two's complement little-endian int16: the low
\* seven bits of hi and all of lo count up, the top bit of hi counts -32768
SignedLE(lo, hi) == lo + 256 * (hi % 128) - HalfScale * (hi \div 128)

\* C11: for every byte pair the decoder's numerator, computed unsigned and
\* then corrected, is the signed little-endian value of the pair, and it lies
\* in [-32768, 32767].
C11_DecoderIsSigned16 ==
  cpc \in {"decoded", "encoded"} =>
    \A i \in 1..Len(cfloat) :
      /\ cfloat[i].num = SignedLE(cbuf[2*i - 1], cbuf[2*i])
      /\ cfloat[i].num >= Int16Min
      /\ cfloat[i].num <= Int16Max
      /\ cfloat[i].den = HalfScale

\* the pair 00 80, where the two ways of reading part, has been decoded
C11_Witness ==
  /\ cpc = "decoded"
  /\ cbuf = <<0, 128>>
  /\ cfloat[1].num = Int16Min

\* a step in which getUserMedia rejects: a pending call ends and no stream
\* was acquired
RejectionStep ==
  pendingStarts' = pendingStarts - 1 /\ Len(streams') = Len(streams)

\* C12: a rejected getUserMedia leaves isRecording as it was, retains no
\* stream or processor, sends nothing and calls getUserMedia no more; and the
\* "Microphone access denied" condition is shown for a rejected getUserMedia
\* only, not for another failure inside startRecording.
C12_DenialOnlyForDeviceAccess ==
  /\ [][ RejectionStep =>
           /\ isRecording' = isRecording
           /\ streams' = streams /\ streamRef' = streamRef
           /\ processors' = processors
           /\ mediaRecorderRef' = mediaRecorderRef
           /\ sent' = sent
           /\ startCalls' = startCalls
           /\ status' = "Microphone access denied" ]_vars
  /\ [](status = "Microphone access denied" => caughtError = "getUserMedia")

SocketIsOpen == wsRef # 0 /\ sockets[wsRef] = "OPEN"

\* C13: a capture block makes exactly one message of 8192 bytes, in the
\* callback that delivers it, if and only if the socket in wsRef is OPEN
\* then; otherwise it is discarded; nothing is sent in any other step.
C13_SendOnlyWhenOpen ==
  /\ [][ (sent' # sent \/ discarded' # discarded) =>
           IF SocketIsOpen
             THEN /\ sent' = sent + 1
                  /\ discarded' = discarded
                  /\ sentBytes' = sentBytes \cup {8192}
             ELSE /\ sent' = sent
                  /\ discarded' = discarded + 1
                  /\ sentBytes' = sentBytes ]_vars
  /\ [](sentBytes \subseteq {8192})

\* one block went out on the open socket and one was dropped without it
C13_Witness ==
  /\ sent >= 1
  /\ discarded >= 1
  /\ sentBytes = {8192}

\* a step in which some socket reaches CLOSED: its onclose, and its onerror
\* before it, have run
CloseStep ==
  \E s \in SocketIds : sockets[s] # "CLOSED" /\ sockets'[s] = "CLOSED"

\* C14: every socket was made by an invocation of connectWebSocket, and the
\* step that runs onclose and onerror makes none and changes nothing but
\* isConnected, status and the state of the closed socket.
C14_NoAutoReconnect ==
  /\ [](Len(sockets) = connects)
  /\ [][ CloseStep =>
           /\ Len(sockets') = Len(sockets)
           /\ connects' = connects
           /\ wsRef' = wsRef
           /\ UNCHANGED <<playVars, audioContextRef, capVars>> ]_vars

\* the socket in use failed after it had opened and none was made in its place
C14_Witness ==
  /\ connects = 1
  /\ sockets = <<"CLOSED">>
  /\ ~isConnected
  /\ status = "Disconnected from server"
  /\ isRecording

\* C15: while a popped frame is rendering the flag is set, and a step that
\* clears the flag without a throw leaves the queue empty.
C15_FlagClearedOnEmpty ==
  /\ [](playing # {} => isPlayingRef)
  /\ [][ Len(renderLog') > Len(renderLog) => isPlayingRef' ]_vars
  /\ [][ (isPlayingRef /\ ~isPlayingRef' /\ dropped' = dropped) =>
           audioQueueRef' = <<>> ]_vars

\* a drain of three frames has returned without a throw
C15_Witness ==
  /\ ~isPlayingRef
  /\ drains = 0
  /\ Len(renderLog) = 3
  /\ dropped = <<>>
  /\ audioQueueRef = <<>>
  /\ reading = {}

\* C16: while recording is active the monitor loop is running: updateLevel
\* has sampled and waits for its next animation frame; while nothing is
\* recording audioLevel is 0.
C16_LevelMonitored ==
  /\ isRecording => monitorScheduled
  /\ ~isRecording => audioLevel = 0

LiveSockets == { s \in SocketIds : sockets[s] \in {"CONNECTING", "OPEN"} }

\* C17: at most one socket of the component is CONNECTING or OPEN.
C17_OneLiveSocket == Cardinality(LiveSockets) <= 1

\* C18: while the socket in wsRef is OPEN, isConnected is true.
C18_ConnectedFollowsSocket == SocketIsOpen => isConnected

\* C19: when nothing is recording and no startRecording is in progress, every
\* stream acquired has had its tracks stopped.
C19_MicOnlyWhileRecording ==
  (~isRecording /\ pendingStarts = 0) =>
    \A i \in 1..Len(streams) : ~streams[i]

\* fairness: a started render ends
PlaybackLive ==
  PlaybackSpec /\ WF_vars(\E src \in playing : RenderEnded(src))

====
